---- MODULE Spec2Model ----
(***************************************************************************)
(* Forward-chaining Certainty Factor engine of Sistem_Pakar_Diagnosa_      *)
(* Malaria: engine.py (cf_symptom_from_mbmd, combine_cf,                   *)
(* forward_chaining) and the ExpertSystem class of app.py.                 *)
(*                                                                         *)
(* Numbers.  A Python float is modelled as an exact rational <<n, d>> in   *)
(* lowest terms with d > 0, or as NaN, written <<0, 0>>.  Arithmetic and   *)
(* comparisons follow Python: every comparison with NaN is false, the      *)
(* builtins min and max keep their first argument unless the other one     *)
(* compares strictly smaller (larger), and dividing by zero raises.        *)
(* Rounding error and overflow of binary floating point are not modelled.  *)
(*                                                                         *)
(* Dictionaries.  A Python dict is modelled as a sequence of records       *)
(* [k, v] with distinct keys, in insertion order.                          *)
(***************************************************************************)
EXTENDS Integers, Sequences, FiniteSets, TLC

VARIABLES
    kb,             \* the knowledge base argument / ExpertSystem.kb
    input_facts,    \* the input_facts argument of the current run
    eng,            \* which forward_chaining runs: "engine" or "app"
    pc,             \* position of the run
    cf_facts,       \* the fact store (dict code -> CF)
    applied_rules,  \* engine.py memo (dict rule id -> last cf_antecedent)
    fired_trace,    \* the trace (list of trace items)
    changed,        \* the loop flag (changed / rules_fired)
    iteration,      \* engine.py pass counter
    ri,             \* index of the rule the for loop is at
    result,         \* what the run returned or raised
    first,          \* the first completed run: its arguments and outcome
    calls,          \* how many runs were called, counted up to MaxCalls
    ca, cb, cr      \* combine_cf applied on its own: arguments and result

vars == <<kb, input_facts, eng, pc, cf_facts, applied_rules, fired_trace,
          changed, iteration, ri, result, first, calls, ca, cb, cr>>

----------------------------------------------------------------------------
(* Bounds of the model *)

\* the trace of an engine.py run is kept up to this many items
MaxTrace == 4
\* the pass counter of engine.py is counted up to this value
MaxPass == 4
\* the calls of forward_chaining are counted up to this value
MaxCalls == 2
\* combine_cf on its own is applied to the multiples of 1/GridDen in [-1, 1]
GridDen == 5

----------------------------------------------------------------------------
(* Floats *)

Nan == <<0, 0>>
IsNan(x) == x[2] = 0

AbsInt(n) == IF n < 0 THEN -n ELSE n

\* Once(S) is the value of e for a singleton set S = {e}: an operator that
\* uses its arguments several times takes them through Once, so that each
\* is evaluated a single time
Once(S) == CHOOSE v \in S : TRUE

RECURSIVE GCD(_, _)
GCD(a, b) ==
    IF b = 0 THEN a ELSE Once({GCD(p[1], p[2]) : p \in {<<b, a % b>>}})

\* the rational n/d (d /= 0) in lowest terms with a positive denominator
NormOf(n, d, g) ==
    IF d < 0 THEN <<(-n) \div g, (-d) \div g>> ELSE <<n \div g, d \div g>>
Norm(n, d) ==
    Once({NormOf(p[1], p[2], GCD(AbsInt(p[1]), AbsInt(p[2]))) :
              p \in {<<n, d>>}})

Zero == <<0, 1>>
One == <<1, 1>>
MinusOne == <<-1, 1>>

AddOf(x, y) == IF IsNan(x) \/ IsNan(y) THEN Nan
               ELSE Norm(x[1] * y[2] + y[1] * x[2], x[2] * y[2])
SubOf(x, y) == IF IsNan(x) \/ IsNan(y) THEN Nan
               ELSE Norm(x[1] * y[2] - y[1] * x[2], x[2] * y[2])
MulOf(x, y) == IF IsNan(x) \/ IsNan(y) THEN Nan
               ELSE Norm(x[1] * y[1], x[2] * y[2])
DivOf(x, y) == IF IsNan(x) \/ IsNan(y) THEN Nan
               ELSE Norm(x[1] * y[2], x[2] * y[1])
LtOf(x, y) == ~IsNan(x) /\ ~IsNan(y) /\ x[1] * y[2] < y[1] * x[2]
LeOf(x, y) == ~IsNan(x) /\ ~IsNan(y) /\ x[1] * y[2] <= y[1] * x[2]

Add(x, y) == Once({AddOf(p[1], p[2]) : p \in {<<x, y>>}})
Sub(x, y) == Once({SubOf(p[1], p[2]) : p \in {<<x, y>>}})
Mul(x, y) == Once({MulOf(p[1], p[2]) : p \in {<<x, y>>}})
\* x / y for y not equal to zero (the callers test for the raise first)
Div(x, y) == Once({DivOf(p[1], p[2]) : p \in {<<x, y>>}})

Lt(x, y) == \E p \in {<<x, y>>} : LtOf(p[1], p[2])
Le(x, y) == \E p \in {<<x, y>>} : LeOf(p[1], p[2])
Gt(x, y) == Lt(y, x)
Ge(x, y) == Le(y, x)
\* Python ==: NaN is not equal to itself
FEq(x, y) == \E p \in {<<x, y>>} : ~IsNan(p[1]) /\ ~IsNan(p[2]) /\ p[1] = p[2]

PyAbs(x) == Once({IF IsNan(v) THEN Nan ELSE <<AbsInt(v[1]), v[2]>> : v \in {x}})
\* min(a, b) and max(a, b) of Python
PyMin(a, b) == Once({IF Lt(p[2], p[1]) THEN p[2] ELSE p[1] : p \in {<<a, b>>}})
PyMax(a, b) == Once({IF Gt(p[2], p[1]) THEN p[2] ELSE p[1] : p \in {<<a, b>>}})

\* min(list) of Python, for a non-empty list
RECURSIVE MinOfFrom(_, _, _)
MinOfFrom(s, i, acc) ==
    IF i > Len(s) THEN acc
    ELSE MinOfFrom(s, i + 1, IF Lt(s[i], acc) THEN s[i] ELSE acc)
MinOf(s) == MinOfFrom(s, 2, s[1])

\* abs(x) < 1/e and abs(x) > 1/e, for an integer e > 0 (false for NaN);
\* written with integer division so that no product leaves 32 bits
AbsLtInv(x, e) == ~IsNan(x) /\ AbsInt(x[1]) <= (x[2] - 1) \div e
AbsGtInv(x, e) == ~IsNan(x) /\ AbsInt(x[1]) > x[2] \div e

\* round(v, 4): the nearest multiple of 1/10000, a tie to the even one
RoundDigitsScale == 10000
RoundInt(n, d) ==
    LET q == n \div d
        r == n % d
    IN  IF 2 * r < d THEN q
        ELSE IF 2 * r > d THEN q + 1
        ELSE IF q % 2 = 0 THEN q ELSE q + 1
Round4(x) == IF IsNan(x) THEN Nan
             ELSE Norm(RoundInt(x[1] * RoundDigitsScale, x[2]), RoundDigitsScale)

----------------------------------------------------------------------------
(* Dicts *)

EmptyDict == <<>>

RECURSIVE IndexFrom(_, _, _)
IndexFrom(d, k, i) ==
    IF i > Len(d) THEN 0
    ELSE IF d[i].k = k THEN i ELSE IndexFrom(d, k, i + 1)
\* position of key k in dict d, 0 when absent
IndexOf(d, k) == IndexFrom(d, k, 1)

Has(d, k) == IndexOf(d, k) /= 0
Keys(d) == {d[i].k : i \in 1..Len(d)}
\* d[k] for a key that is present
Get(d, k) == d[IndexOf(d, k)].v
\* d[k] = v: a present key keeps its place, a new key goes last
Put(d, k, v) ==
    IF Has(d, k) THEN [d EXCEPT ![IndexOf(d, k)].v = v]
    ELSE Append(d, [k |-> k, v |-> v])

----------------------------------------------------------------------------
(* Knowledge bases and inputs the runs are given *)

Rule(id, ants, concl, cf) ==
    [id |-> id, if |-> ants, then |-> concl, cf |-> cf, note |-> ""]
Symptom(code, mb, md) == [code |-> code, mb |-> mb, md |-> md]

\* a knowledge base; has_symptoms / has_rules say whether the key is present
Kb(hs, syms, hr, rules) ==
    [has_symptoms |-> hs, symptoms |-> syms, has_rules |-> hr, rules |-> rules]

SymptomLists ==
    { <<>>,
      <<Symptom("G02", One, Zero), Symptom("G03", <<4, 5>>, <<1, 5>>)>>,
      <<Symptom("G02", Zero, One)>>,
      <<Symptom("G02", One, Zero), Symptom("G02", <<1, 2>>, Zero)>> }

RuleLists ==
    { <<>>,
      <<Rule("R1", <<"G02">>, "D1", <<4, 5>>)>>,
      <<Rule("R1", <<"G02">>, "D1", <<4, 5>>),
        Rule("R2", <<"D1">>, "Anemia_due_to_malaria", <<1, 2>>)>>,
      <<Rule("R2", <<"D1">>, "Anemia_due_to_malaria", <<1, 2>>),
        Rule("R1", <<"G02">>, "D1", <<4, 5>>)>>,
      <<Rule("R1", <<"G02">>, "D1", One), Rule("R2", <<"G03">>, "D1", One)>>,
      <<Rule("R1", <<"G02">>, "D1", One), Rule("R2", <<"G03">>, "D1", <<-1, 2>>)>>,
      <<Rule("R1", <<"D1">>, "D1", <<5, 2>>)>>,
      <<Rule("R1", <<"G03">>, "G02", MinusOne)>>,
      <<Rule("R1", <<"G02", "G03">>, "D1", <<1, 2>>)>>,
      <<Rule("R1", <<>>, "D1", One), Rule("R2", <<"G02">>, "D1", <<1, 2>>)>>,
      <<Rule("R1", <<"G03">>, "D1", <<1, 2>>),
        Rule("R2", <<"G02">>, "G03", <<1, 2>>)>>,
      <<Rule("R2", <<"G02">>, "G03", <<1, 2>>),
        Rule("R1", <<"G03">>, "D1", <<1, 2>>)>>,
      <<Rule("R1", <<"G03">>, "G02", One), Rule("R2", <<"G03">>, "G02", MinusOne)>> }

KBs ==
    {Kb(TRUE, s, TRUE, r) : s \in SymptomLists, r \in RuleLists}
    \cup {Kb(FALSE, <<>>, TRUE, r) : r \in RuleLists}
    \cup {Kb(TRUE, s, FALSE, <<>>) : s \in SymptomLists}
    \cup {Kb(FALSE, <<>>, FALSE, <<>>)}

\* kb.get("symptoms", []) and kb.get("rules", [])
KbSymptoms(k) == IF k.has_symptoms THEN k.symptoms ELSE <<>>
KbRules(k) == IF k.has_rules THEN k.rules ELSE <<>>

\* a user confidence: a float, a string that float() parses to val, or an
\* object float() raises on (None, "abc")
Float(x) == [kind |-> "float", val |-> x]
NumStr(x) == [kind |-> "numstr", val |-> x]
NonNumeric == [kind |-> "other", val |-> Zero]

Fact(k, v) == [k |-> k, v |-> v]

FloatInputs ==
    { <<>>,
      <<Fact("G02", Float(One))>>,
      <<Fact("G02", Float(One)), Fact("G03", Float(One))>>,
      <<Fact("G02", Float(Nan)), Fact("G03", Float(One)), Fact("D1", Float(One))>>,
      <<Fact("D1", Float(<<3, 5>>))>>,
      <<Fact("Anemia_due_to_malaria", Float(<<1, 2>>)), Fact("G02", Float(<<5, 1>>))>>,
      <<Fact("G02", Float(<<1, 3>>)), Fact("G03", Float(<<-3, 1>>))>> }

OtherInputs ==
    { <<Fact("G02", NumStr(<<1, 2>>)), Fact("G03", NonNumeric)>>,
      <<Fact("D1", NonNumeric)>> }

\* engine.forward_chaining takes any mapping; ExpertSystem.forward_chaining
\* is called by the /infer route with floats
Calls ==
    {<<"engine", f>> : f \in FloatInputs \cup OtherInputs}
    \cup {<<"app", f>> : f \in FloatInputs}

----------------------------------------------------------------------------
(* engine.py: the CF calculator *)

\* a call's outcome: a value, or an exception
Ret(x) == [ok |-> TRUE, val |-> x]
Raise == [ok |-> FALSE, val |-> Nan]

\* the / of Python floats: a zero divisor raises ZeroDivisionError
PyDiv(x, y) == IF y = Zero THEN Raise ELSE Ret(Div(x, y))

\* float(user_conf)
PyFloat(c) == IF c.kind = "other" THEN Raise ELSE Ret(c.val)

cf_symptom_from_mbmd(symptom) == Sub(symptom.mb, symptom.md)

\* combine_cf without the test of the denominator
combine_cf_NoGuard(cf1, cf2) ==
    IF Ge(cf1, Zero) /\ Ge(cf2, Zero)
    THEN Ret(Add(cf1, Mul(cf2, Sub(One, cf1))))
    ELSE IF Le(cf1, Zero) /\ Le(cf2, Zero)
    THEN Ret(Add(cf1, Mul(cf2, Add(One, cf1))))
    ELSE PyDiv(Add(cf1, cf2), Sub(One, PyMin(PyAbs(cf1), PyAbs(cf2))))

\* combine_cf adding two positive CFs without the factor 1 - cf1
combine_cf_PlainSum(cf1, cf2) ==
    IF Ge(cf1, Zero) /\ Ge(cf2, Zero)
    THEN Ret(Add(cf1, cf2))
    ELSE IF Le(cf1, Zero) /\ Le(cf2, Zero)
    THEN Ret(Add(cf1, Mul(cf2, Add(One, cf1))))
    ELSE LET denom == Sub(One, PyMin(PyAbs(cf1), PyAbs(cf2)))
         IN  IF FEq(denom, Zero) THEN Ret(Zero)
             ELSE PyDiv(Add(cf1, cf2), denom)

combine_cf(cf1, cf2) ==
    IF Ge(cf1, Zero) /\ Ge(cf2, Zero)
    THEN Ret(Add(cf1, Mul(cf2, Sub(One, cf1))))
    ELSE IF Le(cf1, Zero) /\ Le(cf2, Zero)
    THEN Ret(Add(cf1, Mul(cf2, Add(One, cf1))))
    ELSE LET denom == Sub(One, PyMin(PyAbs(cf1), PyAbs(cf2)))
         IN  IF FEq(denom, Zero) THEN Ret(Zero)
             ELSE PyDiv(Add(cf1, cf2), denom)

----------------------------------------------------------------------------
(* engine.py: forward_chaining *)

\* {s["code"]: s for s in kb.get("symptoms", [])}, then base_cf
RECURSIVE BaseCfFrom(_, _, _)
BaseCfFrom(syms, i, acc) ==
    IF i > Len(syms) THEN acc
    ELSE BaseCfFrom(syms, i + 1,
                    Put(acc, syms[i].code, cf_symptom_from_mbmd(syms[i])))
BaseCf(k) == BaseCfFrom(KbSymptoms(k), 1, EmptyDict)

\* the fallback of the except branch taken as 0.0
UserConf_ZeroDefault(c) == IF PyFloat(c).ok THEN PyFloat(c).val ELSE Zero

\* try: float(user_conf) except Exception: 1.0
UserConf(c) == IF PyFloat(c).ok THEN PyFloat(c).val ELSE One

\* the seeding loop over input_facts.items()
RECURSIVE SeedFrom(_, _, _, _)
SeedFrom(base, facts, i, acc) ==
    IF i > Len(facts) THEN acc
    ELSE LET code == facts[i].k
             user_conf == UserConf(facts[i].v)
         IN  SeedFrom(base, facts, i + 1,
                      Put(acc, code,
                          IF Has(base, code)
                          THEN Mul(user_conf, Get(base, code))
                          ELSE user_conf))
SeedFacts(k, facts) == SeedFrom(BaseCf(k), facts, 1, EmptyDict)

\* the antecedent loop passing over an antecedent that is not a fact
RECURSIVE AntecedentsFrom_SkipAbsent(_, _, _, _)
AntecedentsFrom_SkipAbsent(facts, ants, i, acc) ==
    IF i > Len(ants) THEN [missing |-> FALSE, cfs |-> acc]
    ELSE IF Has(facts, ants[i])
    THEN AntecedentsFrom_SkipAbsent(facts, ants, i + 1,
                                    Append(acc, Get(facts, ants[i])))
    ELSE AntecedentsFrom_SkipAbsent(facts, ants, i + 1, acc)

\* the antecedent loop: the CFs collected until an antecedent is missing
RECURSIVE AntecedentsFrom(_, _, _, _)
AntecedentsFrom(facts, ants, i, acc) ==
    IF i > Len(ants) THEN [missing |-> FALSE, cfs |-> acc]
    ELSE IF Has(facts, ants[i])
    THEN AntecedentsFrom(facts, ants, i + 1, Append(acc, Get(facts, ants[i])))
    ELSE [missing |-> TRUE, cfs |-> acc]
AntecedentCfs(facts, rule) == AntecedentsFrom(facts, rule.if, 1, <<>>)

\* 1e-9 and 1e-6, as the reciprocals the comparisons are written with
MemoTolInv == 1000000000
ChangeTolInv == 1000000

\* prev_cf is not None and abs(prev_cf - cf_antecedent) < 1e-9
MemoUnchanged(memo, rid, cf_antecedent) ==
    /\ Has(memo, rid)
    /\ AbsLtInv(Sub(Get(memo, rid), cf_antecedent), MemoTolInv)

\* cf_facts.get(conclusion, 0.0)
OldConclCf(facts, conclusion) ==
    IF Has(facts, conclusion) THEN Get(facts, conclusion) ELSE Zero

\* the contribution written over the value of the conclusion
NewConclCf_Overwrite(facts, conclusion, rule_cf_value) == Ret(rule_cf_value)

NewConclCf(facts, conclusion, rule_cf_value) ==
    IF Has(facts, conclusion)
    THEN combine_cf(OldConclCf(facts, conclusion), rule_cf_value)
    ELSE Ret(rule_cf_value)

\* abs(new_concl_cf - old_concl_cf) > 1e-6
Significant(new, old) == AbsGtInv(Sub(new, old), ChangeTolInv)

TraceItem(rule, cfs, cf_antecedent, value, old, new) ==
    [rule_id |-> rule.id, if |-> rule.if, antecedent_cfs |-> cfs,
     cf_antecedent |-> cf_antecedent, rule_cf |-> rule.cf,
     rule_contribution |-> value, conclusion |-> rule.then,
     old_cf |-> old, new_cf |-> new, note |-> rule.note]

\* max(min(round(v, 4), 1.0), -1.0)
Clamp(v) == PyMax(PyMin(Round4(v), One), MinusOne)

ClampAll(d) == [i \in 1..Len(d) |-> [k |-> d[i].k, v |-> Clamp(d[i].v)]]

\* translation_map.get(k, k)
Translate(k) ==
    CASE k = "Anemia_due_to_malaria" -> "Anemia akibat malaria"
      [] k = "Respiratory_complication" -> "Komplikasi pernapasan akibat malaria"
      [] k = "Malaria Tertiana" -> "Malaria Tertiana"
      [] k = "Malaria Tropika" -> "Malaria Tropika"
      [] OTHER -> k

\* {translation_map.get(k, k): v for k, v in cf_facts.items()}
RECURSIVE TranslateFrom(_, _, _)
TranslateFrom(d, i, acc) ==
    IF i > Len(d) THEN acc
    ELSE TranslateFrom(d, i + 1, Put(acc, Translate(d[i].k), d[i].v))
TranslateKeys(d) == TranslateFrom(d, 1, EmptyDict)

FinalFacts(d) == TranslateKeys(ClampAll(d))

\* the body of the for loop for one rule, on the locals of the run: the
\* fact store, the memo, the ids of the rules fired and the loop flag
RuleBody(st, rule) ==
    LET ants == AntecedentCfs(st.facts, rule)
        cf_antecedent == MinOf(ants.cfs)
        rule_cf_value == Mul(rule.cf, cf_antecedent)
        old_concl_cf == OldConclCf(st.facts, rule.then)
        new_concl_cf == NewConclCf(st.facts, rule.then, rule_cf_value)
    IN  IF ants.missing \/ ants.cfs = <<>> THEN st
        ELSE IF MemoUnchanged(st.memo, rule.id, cf_antecedent) THEN st
        ELSE IF new_concl_cf.ok /\ Significant(new_concl_cf.val, old_concl_cf)
        THEN [facts |-> Put(st.facts, rule.then, new_concl_cf.val),
              memo |-> Put(st.memo, rule.id, cf_antecedent),
              fired |-> st.fired \cup {rule.id},
              changed |-> TRUE]
        ELSE st

\* for rule in rules, from the i-th rule on
RECURSIVE PassFrom(_, _, _)
PassFrom(rules, i, st) ==
    IF i > Len(rules) THEN st
    ELSE Once({PassFrom(rules, i + 1, t) : t \in {RuleBody(st, rules[i])}})

\* while changed, for at most n passes; done says whether the loop ended
RECURSIVE PassesFrom(_, _, _)
PassesFrom(rules, st, n) ==
    IF ~st.changed
    THEN [done |-> TRUE, facts |-> FinalFacts(st.facts), fired |-> st.fired]
    ELSE IF n = 0 THEN [done |-> FALSE, facts |-> <<>>, fired |-> st.fired]
    ELSE Once({PassesFrom(rules, t, n - 1) :
                   t \in {PassFrom(rules, 1, [st EXCEPT !.changed = FALSE])}})

\* forward_chaining(kb, input_facts) as a function of its arguments: the
\* final_facts and the ids of the rules in the trace, when the loop ends
\* within MaxPass passes
forward_chaining(k, facts) ==
    PassesFrom(KbRules(k),
               [facts |-> SeedFacts(k, facts), memo |-> EmptyDict,
                fired |-> {}, changed |-> TRUE],
               MaxPass)

----------------------------------------------------------------------------
(* app.py: ExpertSystem *)

\* the first symptom with the code, (1.0, 0.0) when there is none
RECURSIVE MbMdFrom(_, _, _)
MbMdFrom(syms, code, i) ==
    IF i > Len(syms) THEN <<One, Zero>>
    ELSE IF syms[i].code = code THEN <<syms[i].mb, syms[i].md>>
    ELSE MbMdFrom(syms, code, i + 1)
get_mb_md(k, symptom_code) == MbMdFrom(KbSymptoms(k), symptom_code, 1)

calculate_cf(k, user_cf, symptom_code) ==
    LET mbmd == get_mb_md(k, symptom_code)
        base_cf == Sub(mbmd[1], mbmd[2])
    IN  Mul(user_cf, base_cf)

\* ExpertSystem.combine_cf
app_combine_cf(cf1, cf2) ==
    IF Ge(cf1, Zero) /\ Ge(cf2, Zero)
    THEN Ret(Add(cf1, Mul(cf2, Sub(One, cf1))))
    ELSE IF Lt(cf1, Zero) /\ Lt(cf2, Zero)
    THEN Ret(Add(cf1, Mul(cf2, Add(One, cf1))))
    ELSE PyDiv(Add(cf1, cf2), Sub(One, PyMin(PyAbs(cf1), PyAbs(cf2))))

\* the seeding loop of ExpertSystem.forward_chaining
RECURSIVE AppSeedFrom(_, _, _, _)
AppSeedFrom(k, facts, i, acc) ==
    IF i > Len(facts) THEN acc
    ELSE AppSeedFrom(k, facts, i + 1,
                     Put(acc, facts[i].k,
                         calculate_cf(k, facts[i].v.val, facts[i].k)))
AppSeedFacts(k, facts) == AppSeedFrom(k, facts, 1, EmptyDict)

\* rule_id in [t.get('rule_id') for t in trace]
InTrace(trace, rule_id) == \E i \in 1..Len(trace) : trace[i].rule_id = rule_id

\* all(ant in cf_facts for ant in antecedents)
AllPresent(facts, ants) == \A i \in 1..Len(ants) : Has(facts, ants[i])

\* [cf_facts[ant] for ant in antecedents]
AntCfs(facts, ants) == [i \in 1..Len(ants) |-> Get(facts, ants[i])]

AppNewCf(facts, conclusion, rule_contribution) ==
    IF Has(facts, conclusion)
    THEN app_combine_cf(OldConclCf(facts, conclusion), rule_contribution)
    ELSE Ret(rule_contribution)

AppTraceItem(rule, ant_cfs, old, new) ==
    [rule_id |-> rule.id, if |-> rule.if, then |-> rule.then,
     antecedent_cfs |-> ant_cfs, rule_cf |-> rule.cf,
     old_cf |-> old, new_cf |-> new, note |-> rule.note]

----------------------------------------------------------------------------
(* The runs *)

NoResult == [kind |-> "none", facts |-> <<>>, trace |-> <<>>, err |-> ""]
Returned(facts, trace) ==
    [kind |-> "return", facts |-> facts, trace |-> trace, err |-> ""]
Raised(err) == [kind |-> "raise", facts |-> <<>>, trace |-> <<>>, err |-> err]

NoFirst == [set |-> FALSE, eng |-> "", input |-> <<>>, out |-> NoResult]

\* the run ends with outcome out; the first run to end is remembered
Ends(out) ==
    /\ result' = out
    /\ first' = IF first.set THEN first
                ELSE [set |-> TRUE, eng |-> eng, input |-> input_facts,
                      out |-> out]

Init ==
    /\ kb \in KBs
    /\ input_facts = <<>>
    /\ eng = "engine"
    /\ pc = "idle"
    /\ cf_facts = EmptyDict
    /\ applied_rules = EmptyDict
    /\ fired_trace = <<>>
    /\ changed = FALSE
    /\ iteration = 0
    /\ ri = 0
    /\ result = NoResult
    /\ first = NoFirst
    /\ calls = 0
    /\ ca = Zero /\ cb = Zero /\ cr = Ret(Zero)

Idle == pc \in {"idle", "done", "raised"}

\* the call with a memo that outlives the run
EngCall_StaleMemo(facts) ==
    /\ Idle
    /\ eng' = "engine"
    /\ input_facts' = facts
    /\ cf_facts' = SeedFacts(kb, facts)
    /\ fired_trace' = <<>>
    /\ applied_rules' = IF eng = "engine" THEN applied_rules ELSE EmptyDict
    /\ changed' = TRUE
    /\ iteration' = 0
    /\ ri' = 0
    /\ result' = NoResult
    /\ pc' = "while"
    /\ calls' = IF calls < MaxCalls THEN calls + 1 ELSE calls
    /\ UNCHANGED <<kb, first, ca, cb, cr>>

\* engine.forward_chaining(kb, input_facts) is called: lines 72-105
EngCall(facts) ==
    /\ Idle
    /\ eng' = "engine"
    /\ input_facts' = facts
    /\ cf_facts' = SeedFacts(kb, facts)
    /\ fired_trace' = <<>>
    /\ applied_rules' = EmptyDict
    /\ changed' = TRUE
    /\ iteration' = 0
    /\ ri' = 0
    /\ result' = NoResult
    /\ pc' = "while"
    /\ calls' = IF calls < MaxCalls THEN calls + 1 ELSE calls
    /\ UNCHANGED <<kb, first, ca, cb, cr>>

\* while changed: a pass begins
EngPassStart ==
    /\ pc = "while" /\ eng = "engine" /\ changed
    /\ iteration' = IF iteration < MaxPass THEN iteration + 1 ELSE iteration
    /\ changed' = FALSE
    /\ ri' = 1
    /\ pc' = "for"
    /\ UNCHANGED <<kb, input_facts, eng, cf_facts, applied_rules, fired_trace,
                   result, first, calls, ca, cb, cr>>

\* for rule in rules: the list is exhausted
EngPassEnd ==
    /\ pc = "for" /\ eng = "engine" /\ ri > Len(KbRules(kb))
    /\ pc' = "while"
    /\ UNCHANGED <<kb, input_facts, eng, cf_facts, applied_rules, fired_trace,
                   changed, iteration, ri, result, first, calls, ca, cb, cr>>

AtRule(e) == pc = "for" /\ eng = e /\ ri <= Len(KbRules(kb))
CurRule == KbRules(kb)[ri]
CurAnts == AntecedentCfs(cf_facts, CurRule)
CurCfAntecedent == MinOf(CurAnts.cfs)
CurValue == Mul(CurRule.cf, CurCfAntecedent)
CurOld == OldConclCf(cf_facts, CurRule.then)
CurNew == NewConclCf(cf_facts, CurRule.then, CurValue)

\* if missing or not antecedent_cfs: continue
EngSkipMissing ==
    /\ AtRule("engine")
    /\ CurAnts.missing \/ CurAnts.cfs = <<>>
    /\ ri' = ri + 1
    /\ UNCHANGED <<kb, input_facts, eng, pc, cf_facts, applied_rules,
                   fired_trace, changed, iteration, result, first, calls, ca, cb, cr>>

\* the rule was last applied with this cf_antecedent: continue
EngSkipUnchanged ==
    /\ AtRule("engine")
    /\ ~(CurAnts.missing \/ CurAnts.cfs = <<>>)
    /\ MemoUnchanged(applied_rules, CurRule.id, CurCfAntecedent)
    /\ ri' = ri + 1
    /\ UNCHANGED <<kb, input_facts, eng, pc, cf_facts, applied_rules,
                   fired_trace, changed, iteration, result, first, calls, ca, cb, cr>>

EngEvaluates ==
    /\ AtRule("engine")
    /\ ~(CurAnts.missing \/ CurAnts.cfs = <<>>)
    /\ ~MemoUnchanged(applied_rules, CurRule.id, CurCfAntecedent)

\* the new value is within 1e-6 of the old one: nothing is written
EngNoChange ==
    /\ EngEvaluates
    /\ CurNew.ok
    /\ ~Significant(CurNew.val, CurOld)
    /\ ri' = ri + 1
    /\ UNCHANGED <<kb, input_facts, eng, pc, cf_facts, applied_rules,
                   fired_trace, changed, iteration, result, first, calls, ca, cb, cr>>

\* the trace item put in front of the trace
EngAppend_Prepend(trace, item) ==
    IF Len(trace) < MaxTrace THEN <<item>> \o trace ELSE trace

\* fired_trace.append(trace_item), kept up to MaxTrace items
EngAppend(trace, item) ==
    IF Len(trace) < MaxTrace THEN Append(trace, item) ELSE trace

\* the commit with a fact store that is the caller's input_facts mapping
EngCommit_AliasInput ==
    /\ EngEvaluates
    /\ CurNew.ok
    /\ Significant(CurNew.val, CurOld)
    /\ cf_facts' = Put(cf_facts, CurRule.then, CurNew.val)
    /\ input_facts' = Put(input_facts, CurRule.then, Float(CurNew.val))
    /\ changed' = TRUE
    /\ applied_rules' = Put(applied_rules, CurRule.id, CurCfAntecedent)
    /\ fired_trace' = EngAppend(fired_trace,
                                TraceItem(CurRule, CurAnts.cfs, CurCfAntecedent,
                                          CurValue, CurOld, CurNew.val))
    /\ ri' = ri + 1
    /\ UNCHANGED <<kb, eng, pc, iteration, result, first, calls, ca, cb, cr>>

\* the commit that leaves the loop flag as it is
EngCommit_NoFlag ==
    /\ EngEvaluates
    /\ CurNew.ok
    /\ Significant(CurNew.val, CurOld)
    /\ cf_facts' = Put(cf_facts, CurRule.then, CurNew.val)
    /\ applied_rules' = Put(applied_rules, CurRule.id, CurCfAntecedent)
    /\ fired_trace' = EngAppend(fired_trace,
                                TraceItem(CurRule, CurAnts.cfs, CurCfAntecedent,
                                          CurValue, CurOld, CurNew.val))
    /\ ri' = ri + 1
    /\ UNCHANGED <<kb, input_facts, eng, pc, changed, iteration, result, first,
                   calls, ca, cb, cr>>

\* the commit: lines 152-168
EngCommit ==
    /\ EngEvaluates
    /\ CurNew.ok
    /\ Significant(CurNew.val, CurOld)
    /\ cf_facts' = Put(cf_facts, CurRule.then, CurNew.val)
    /\ changed' = TRUE
    /\ applied_rules' = Put(applied_rules, CurRule.id, CurCfAntecedent)
    /\ fired_trace' = EngAppend(fired_trace,
                                TraceItem(CurRule, CurAnts.cfs, CurCfAntecedent,
                                          CurValue, CurOld, CurNew.val))
    /\ ri' = ri + 1
    /\ UNCHANGED <<kb, input_facts, eng, pc, iteration, result, first,
                   calls, ca, cb, cr>>

\* the loop ends: clamp and round, translate the keys, return
EngReturn ==
    /\ pc = "while" /\ eng = "engine" /\ ~changed
    /\ cf_facts' = FinalFacts(cf_facts)
    /\ Ends(Returned(FinalFacts(cf_facts), fired_trace))
    /\ pc' = "done"
    /\ UNCHANGED <<kb, input_facts, eng, applied_rules, fired_trace, changed,
                   iteration, ri, calls, ca, cb, cr>>

\* ExpertSystem.forward_chaining(facts) is called: lines 80-88
AppCall(facts) ==
    /\ Idle
    /\ eng' = "app"
    /\ input_facts' = facts
    /\ cf_facts' = AppSeedFacts(kb, facts)
    /\ fired_trace' = <<>>
    /\ applied_rules' = EmptyDict
    /\ changed' = TRUE
    /\ iteration' = 0
    /\ ri' = 0
    /\ result' = NoResult
    /\ pc' = "while"
    /\ calls' = IF calls < MaxCalls THEN calls + 1 ELSE calls
    /\ UNCHANGED <<kb, first, ca, cb, cr>>

\* while rules_fired: a pass begins; app.py keeps no pass counter of its
\* own, the passes of its run are counted in iteration
AppPassStart ==
    /\ pc = "while" /\ eng = "app" /\ changed
    /\ iteration' = IF iteration < MaxPass THEN iteration + 1 ELSE iteration
    /\ changed' = FALSE
    /\ ri' = 1
    /\ pc' = "for"
    /\ UNCHANGED <<kb, input_facts, eng, cf_facts, applied_rules, fired_trace,
                   result, first, calls, ca, cb, cr>>

AppPassEnd ==
    /\ pc = "for" /\ eng = "app" /\ ri > Len(KbRules(kb))
    /\ pc' = "while"
    /\ UNCHANGED <<kb, input_facts, eng, cf_facts, applied_rules, fired_trace,
                   changed, iteration, ri, result, first, calls, ca, cb, cr>>

\* the test looking for the rule id under a key of the trace items that
\* does not hold it
AppFired_WrongKey ==
    /\ Has(cf_facts, CurRule.then)
    /\ \E i \in 1..Len(fired_trace) : fired_trace[i].note = CurRule.id

\* conclusion in cf_facts and rule_id in the trace
AppFired == Has(cf_facts, CurRule.then) /\ InTrace(fired_trace, CurRule.id)

AppSkipFired ==
    /\ AtRule("app")
    /\ AppFired
    /\ ri' = ri + 1
    /\ UNCHANGED <<kb, input_facts, eng, pc, cf_facts, applied_rules,
                   fired_trace, changed, iteration, result, first, calls, ca, cb, cr>>

AppSkipMissing ==
    /\ AtRule("app")
    /\ ~AppFired
    /\ ~AllPresent(cf_facts, CurRule.if)
    /\ ri' = ri + 1
    /\ UNCHANGED <<kb, input_facts, eng, pc, cf_facts, applied_rules,
                   fired_trace, changed, iteration, result, first, calls, ca, cb, cr>>

AppEvaluates ==
    /\ AtRule("app")
    /\ ~AppFired
    /\ AllPresent(cf_facts, CurRule.if)

AppAntCfs == AntCfs(cf_facts, CurRule.if)
AppContribution == Mul(CurRule.cf, MinOf(AppAntCfs))
AppCurNew == AppNewCf(cf_facts, CurRule.then, AppContribution)

\* the exception evaluating the current rule raises, "" when it raises none:
\* min() of an empty list, a zero divisor in combine_cf
RuleError ==
    IF eng = "app"
    THEN IF ~AppEvaluates THEN ""
         ELSE IF CurRule.if = <<>> THEN "ValueError"
         ELSE IF ~AppCurNew.ok THEN "ZeroDivisionError" ELSE ""
    ELSE IF EngEvaluates /\ ~CurNew.ok THEN "ZeroDivisionError" ELSE ""

\* the exception leaves forward_chaining
Raises ==
    /\ pc = "for" /\ ri <= Len(KbRules(kb))
    /\ RuleError /= ""
    /\ Ends(Raised(RuleError))
    /\ pc' = "raised"
    /\ UNCHANGED <<kb, input_facts, eng, cf_facts, applied_rules, fired_trace,
                   changed, iteration, ri, calls, ca, cb, cr>>

AppNoChange ==
    /\ AppEvaluates
    /\ RuleError = ""
    /\ ~Significant(AppCurNew.val, CurOld)
    /\ ri' = ri + 1
    /\ UNCHANGED <<kb, input_facts, eng, pc, cf_facts, applied_rules,
                   fired_trace, changed, iteration, result, first, calls, ca, cb, cr>>

AppCommit ==
    /\ AppEvaluates
    /\ RuleError = ""
    /\ Significant(AppCurNew.val, CurOld)
    /\ cf_facts' = Put(cf_facts, CurRule.then, AppCurNew.val)
    /\ changed' = TRUE
    /\ fired_trace' = Append(fired_trace,
                             AppTraceItem(CurRule, AppAntCfs, CurOld,
                                          AppCurNew.val))
    /\ ri' = ri + 1
    /\ UNCHANGED <<kb, input_facts, eng, pc, applied_rules, iteration, result,
                   first, calls, ca, cb, cr>>

AppReturn ==
    /\ pc = "while" /\ eng = "app" /\ ~changed
    /\ Ends(Returned(cf_facts, fired_trace))
    /\ pc' = "done"
    /\ UNCHANGED <<kb, input_facts, eng, cf_facts, applied_rules, fired_trace,
                   changed, iteration, ri, calls, ca, cb, cr>>

\* a step of the run in progress
Step ==
    \/ EngPassStart \/ EngPassEnd \/ EngSkipMissing \/ EngSkipUnchanged
    \/ EngNoChange \/ EngCommit \/ EngReturn
    \/ AppPassStart \/ AppPassEnd \/ AppSkipFired \/ AppSkipMissing
    \/ AppNoChange \/ AppCommit \/ AppReturn
    \/ Raises

Next ==
    \/ \E f \in FloatInputs \cup OtherInputs : EngCall(f)
    \/ \E f \in FloatInputs : AppCall(f)
    \/ Step

Spec == Init /\ [][Next]_vars

\* a run, once called, is executed to its end
LiveSpec == Init /\ [][Next]_vars /\ WF_vars(Step)

----------------------------------------------------------------------------
(* combine_cf applied on its own *)

Grid == {Norm(i, GridDen) : i \in -GridDen..GridDen}

InitCombine ==
    /\ kb = Kb(TRUE, <<>>, TRUE, <<>>)
    /\ input_facts = <<>>
    /\ eng = "engine"
    /\ pc = "combine"
    /\ cf_facts = EmptyDict
    /\ applied_rules = EmptyDict
    /\ fired_trace = <<>>
    /\ changed = FALSE
    /\ iteration = 0
    /\ ri = 0
    /\ result = NoResult
    /\ first = NoFirst
    /\ calls = 0
    /\ ca \in Grid /\ cb \in Grid /\ cr = Ret(Zero)

ApplyCombine ==
    /\ pc = "combine"
    /\ cr' = combine_cf(ca, cb)
    /\ pc' = "combined"
    /\ UNCHANGED <<kb, input_facts, eng, cf_facts, applied_rules, fired_trace,
                   changed, iteration, ri, result, first, calls, ca, cb>>

NextCombine == ApplyCombine

SpecCombine == InitCombine /\ [][NextCombine]_vars

----------------------------------------------------------------------------
(* The claims *)

Running == pc \in {"while", "for"}
EngineReturned == eng = "engine" /\ pc = "done"

\* abs(x) >= 1/e, for an integer e > 0 (false for NaN)
AbsGeInv(x, e) == ~IsNan(x) /\ AbsInt(x[1]) > (x[2] - 1) \div e

\* C1: every run of engine.forward_chaining terminates: once called, it
\* reaches a pass with no commit and returns.
C1_EngineTerminates == (eng = "engine" /\ Running) ~> EngineReturned

\* C2: two consecutive trace items of engine.forward_chaining with the same
\* rule_id have cf_antecedent values that differ by at least 1e-9.
C2_RefiresOnlyOnChange ==
    eng = "engine" =>
        \A i \in 1..Len(fired_trace) : \A j \in (i + 1)..Len(fired_trace) :
            (/\ fired_trace[i].rule_id = fired_trace[j].rule_id
             /\ \A m \in (i + 1)..(j - 1) :
                    fired_trace[m].rule_id /= fired_trace[i].rule_id)
            => AbsGeInv(Sub(fired_trace[j].cf_antecedent,
                            fired_trace[i].cf_antecedent), MemoTolInv)

TraceConclusions == {fired_trace[i].conclusion : i \in 1..Len(fired_trace)}

\* C3: the keys of the final_facts engine.forward_chaining returns are the
\* fact codes of the fact store: the input fact codes and the conclusions of
\* the committed firings, none renamed.
C3_NoRemapping ==
    (EngineReturned /\ Len(fired_trace) < MaxTrace) =>
        Keys(result.facts) = Keys(input_facts) \cup TraceConclusions

\* C4: with a knowledge base that lacks the 'symptoms' or the 'rules' key,
\* engine.forward_chaining does not return a result.
C4_MissingKeySurfaces ==
    (eng = "engine" /\ (~kb.has_symptoms \/ ~kb.has_rules)) => pc /= "done"

\* C5: a zero denominator in the mixed-sign combination never surfaces as an
\* error of an inference run, of engine.py or of ExpertSystem.
C5_NoZeroDivision == ~(pc = "raised" /\ result.err = "ZeroDivisionError")

\* the numerator of a multiple of 1/GridDen
GridNum(x) == (x[1] * GridDen) \div x[2]
MinInt(a, b) == IF a < b THEN a ELSE b

\* the reference combination of i/GridDen and j/GridDen
RefCombine(i, j) ==
    IF i >= 0 /\ j >= 0
    THEN Norm(i * GridDen + j * (GridDen - i), GridDen * GridDen)
    ELSE IF i <= 0 /\ j <= 0
    THEN Norm(i * GridDen + j * (GridDen + i), GridDen * GridDen)
    ELSE IF MinInt(AbsInt(i), AbsInt(j)) = GridDen THEN Zero
    ELSE Norm(i + j, GridDen - MinInt(AbsInt(i), AbsInt(j)))

\* C6: for a and b in [-1, 1], engine.combine_cf(a, b) does not raise and
\* equals the reference combination (0.0 on a zero denominator).
C6_CombineIsReference ==
    pc = "combined" =>
        /\ cr.ok
        /\ cr.val = RefCombine(GridNum(ca), GridNum(cb))

C6_Witness == pc = "combined" /\ ca = One /\ cb = MinusOne /\ cr = Ret(Zero)

\* C7: every value of the final_facts engine.forward_chaining returns lies
\* in [-1, 1].
C7_FinalInRange ==
    EngineReturned =>
        \A i \in 1..Len(result.facts) :
            Ge(result.facts[i].v, MinusOne) /\ Le(result.facts[i].v, One)

LastSymptom(k, code) ==
    LET syms == KbSymptoms(k)
        last == CHOOSE i \in 1..Len(syms) :
                    /\ syms[i].code = code
                    /\ \A j \in (i + 1)..Len(syms) : syms[j].code /= code
    IN  syms[last]
IsSymptom(k, code) ==
    \E i \in 1..Len(KbSymptoms(k)) : KbSymptoms(k)[i].code = code

\* the confidence the seeding uses: 1.0 for a non-numeric one
SeedConf(c) == IF c.kind = "other" THEN One ELSE c.val

\* the seed of an input fact
SeedOf(k, f) ==
    IF IsSymptom(k, f.k)
    THEN Mul(SeedConf(f.v),
             Sub(LastSymptom(k, f.k).mb, LastSymptom(k, f.k).md))
    ELSE SeedConf(f.v)

BeforeFirstPass == eng = "engine" /\ pc = "while" /\ iteration = 0

\* C9: before the first pass of engine.forward_chaining the fact store has
\* exactly the input fact codes as keys, each with user_confidence * (mb - md)
\* for a symptom and user_confidence otherwise, a non-numeric confidence
\* counting as 1.0.
C9_Seeding ==
    BeforeFirstPass =>
        /\ Keys(cf_facts) = Keys(input_facts)
        /\ Len(cf_facts) = Len(input_facts)
        /\ \A i \in 1..Len(input_facts) :
               /\ Has(cf_facts, input_facts[i].k)
               /\ Get(cf_facts, input_facts[i].k) = SeedOf(kb, input_facts[i])

C9_Witness ==
    /\ BeforeFirstPass
    /\ input_facts = <<Fact("G02", NumStr(<<1, 2>>)), Fact("G03", NonNumeric)>>
    /\ cf_facts = <<Fact("G02", <<1, 2>>), Fact("G03", <<3, 5>>)>>

\* C10: no step of a run changes the knowledge base or the input_facts it
\* was called with.
C10_ArgumentsUnchanged ==
    [][/\ kb' = kb
       /\ Running => input_facts' = input_facts]_vars

C10_Witness ==
    /\ pc = "done" /\ Len(fired_trace) >= 2
    /\ Len(input_facts) >= 2 /\ Len(KbRules(kb)) >= 2

TraceGrows == eng = "engine" /\ Len(fired_trace') = Len(fired_trace) + 1
LastItem(trace) == trace[Len(trace)]

\* C11: every committed firing of engine.forward_chaining computes its
\* result from the value the conclusion has right before it: for a conclusion
\* that is not in the fact store, old_cf = 0.0 and new_cf = strength *
\* min(antecedent CFs); for one that is, old_cf is its value and new_cf =
\* combine_cf(old_cf, strength * min(antecedent CFs)); new_cf is what the
\* fact store holds after the firing.
C11_CombinesWithPrior ==
    [][TraceGrows =>
        LET item == LastItem(fired_trace')
            contribution == Mul(item.rule_cf, MinOf(item.antecedent_cfs))
        IN  /\ item.rule_contribution = contribution
            /\ Get(cf_facts', item.conclusion) = item.new_cf
            /\ IF Has(cf_facts, item.conclusion)
               THEN /\ item.old_cf = Get(cf_facts, item.conclusion)
                    /\ item.new_cf = combine_cf(item.old_cf, contribution).val
               ELSE /\ item.old_cf = Zero
                    /\ item.new_cf = contribution]_vars

\* a firing on a conclusion that is an input fact, and one on a new fact
C11_Witness ==
    /\ eng = "engine" /\ Running
    /\ \E i \in 1..Len(fired_trace) :
           /\ fired_trace[i].conclusion \in Keys(input_facts)
           /\ fired_trace[i].old_cf /= Zero
           /\ fired_trace[i].new_cf /= fired_trace[i].rule_contribution
    /\ \E i \in 1..Len(fired_trace) :
           /\ fired_trace[i].conclusion \notin Keys(input_facts)
           /\ fired_trace[i].old_cf = Zero
           /\ fired_trace[i].new_cf = fired_trace[i].rule_contribution

\* the permutations of a list
Perms(s) ==
    {[i \in 1..Len(s) |-> s[p[i]]] :
        p \in {f \in [1..Len(s) -> 1..Len(s)] :
                  \A i, j \in 1..Len(s) : f[i] = f[j] => i = j}}

RuleIds(rules) == {rules[i].id : i \in 1..Len(rules)}
TraceIds == {fired_trace[i].rule_id : i \in 1..Len(fired_trace)}
\* a dict as a mapping, whatever the order of its keys
Items(d) == {<<d[i].k, d[i].v>> : i \in 1..Len(d)}

\* C12: when every rule of the knowledge base fires, the final_facts of
\* engine.forward_chaining are those of the run on any other order of the
\* rule list in which every rule fires.
C12_OrderIndependent ==
    (/\ EngineReturned /\ Len(fired_trace) < MaxTrace
     /\ TraceIds = RuleIds(KbRules(kb)))
    => \A p \in Perms(KbRules(kb)) :
           LET other == forward_chaining([kb EXCEPT !.rules = p], input_facts)
           IN  (other.done /\ other.fired = RuleIds(p))
               => Items(other.facts) = Items(result.facts)

\* C14: a rule of engine.forward_chaining fires only with at least one
\* antecedent, all of them keys of the fact store when it is evaluated: the
\* trace item has a non-empty 'if' and the CF of each antecedent, read from
\* the fact store; no step of the engine raises.
C14_FiresOnPresentAntecedents ==
    [][/\ eng = "engine" => pc' /= "raised"
       /\ TraceGrows =>
            LET item == LastItem(fired_trace')
            IN  /\ item.if /= <<>>
                /\ Len(item.antecedent_cfs) = Len(item.if)
                /\ \A j \in 1..Len(item.if) :
                       /\ Has(cf_facts, item.if[j])
                       /\ item.antecedent_cfs[j] = Get(cf_facts, item.if[j])]_vars

\* a run that returned with a rule fired, while a rule without antecedents
\* did not fire
C14_Witness ==
    /\ EngineReturned /\ Len(fired_trace) >= 1
    /\ \E i \in 1..Len(KbRules(kb)) :
           /\ KbRules(kb)[i].if = <<>>
           /\ KbRules(kb)[i].id \notin TraceIds

MaxOf(S) == CHOOSE x \in S : \A y \in S : y <= x
\* the trace items before the i-th one that have the conclusion c
ItemsFor(c, i) == {j \in 1..(i - 1) : fired_trace[j].conclusion = c}
\* the value the seeding gave to the fact c, 0.0 for a fact it did not seed
SeededCf(c) ==
    IF Has(SeedFacts(kb, input_facts), c)
    THEN Get(SeedFacts(kb, input_facts), c) ELSE Zero

\* the trace accounts for the fact store: the old_cf of an item is the
\* new_cf of the item before it for the same conclusion, or the seeded value;
\* a fact has the new_cf of the last item that concludes it, or its seed
TraceAccountsForStore ==
    (eng = "engine" /\ Running /\ Len(fired_trace) < MaxTrace) =>
        /\ \A i \in 1..Len(fired_trace) :
               LET c == fired_trace[i].conclusion
               IN  fired_trace[i].old_cf =
                       IF ItemsFor(c, i) = {} THEN SeededCf(c)
                       ELSE fired_trace[MaxOf(ItemsFor(c, i))].new_cf
        /\ Keys(cf_facts) = Keys(input_facts) \cup TraceConclusions
        /\ \A c \in Keys(cf_facts) :
               LET n == Len(fired_trace) + 1
               IN  Get(cf_facts, c) =
                       IF ItemsFor(c, n) = {} THEN SeededCf(c)
                       ELSE fired_trace[MaxOf(ItemsFor(c, n))].new_cf

\* a step of a run keeps the items of the trace and the keys of the fact
\* store, and changes the fact store only while appending an item
TraceStep ==
    (eng = "engine" /\ Running /\ Running') =>
        /\ Len(fired_trace') >= Len(fired_trace)
        /\ SubSeq(fired_trace', 1, Len(fired_trace)) = fired_trace
        /\ Keys(cf_facts) \subseteq Keys(cf_facts')
        /\ (cf_facts' /= cf_facts /\ Len(fired_trace) < MaxTrace)
               => Len(fired_trace') = Len(fired_trace) + 1

\* C15: the trace of engine.forward_chaining is an append-only record of the
\* commits in their order and the fact store changes only through them: no
\* item is altered or removed, the old_cf of the first item of a conclusion
\* is its seeded value (0.0 without one) and that of a later item the new_cf
\* of the previous item for the conclusion, a fact no item concludes keeps
\* its seeded value, and no key leaves the fact store.
C15_TraceIsTheRecord == []TraceAccountsForStore /\ [][TraceStep]_vars

\* a conclusion fired on twice, after a fact that was seeded
C15_Witness ==
    /\ eng = "engine" /\ Running /\ Len(fired_trace) < MaxTrace
    /\ \E i \in 1..Len(fired_trace) :
           /\ ItemsFor(fired_trace[i].conclusion, i) /= {}
           /\ fired_trace[i].old_cf /= Zero
    /\ \E c \in Keys(cf_facts) : ItemsFor(c, Len(fired_trace) + 1) = {}

\* the pass loop of engine.forward_chaining has just ended
LoopExit == eng = "engine" /\ pc = "while" /\ ~changed

\* the rule would not commit in the current state
Settled(rule) ==
    LET ants == AntecedentCfs(cf_facts, rule)
        cf_antecedent == MinOf(ants.cfs)
        old == OldConclCf(cf_facts, rule.then)
        new == NewConclCf(cf_facts, rule.then, Mul(rule.cf, cf_antecedent))
    IN  \/ ants.missing \/ ants.cfs = <<>>
        \/ /\ Has(applied_rules, rule.id)
           /\ AbsLtInv(Sub(Get(applied_rules, rule.id), cf_antecedent),
                       MemoTolInv)
        \/ ~AbsGtInv(Sub(new.val, old), ChangeTolInv)

\* the locals of the run, as the function form of the loop takes them
Locals ==
    [facts |-> cf_facts, memo |-> applied_rules, fired |-> TraceIds,
     changed |-> FALSE]

\* C16: when engine.forward_chaining leaves the pass loop, every rule has no
\* antecedents or a missing one, or a memo entry within 1e-9 of its
\* antecedent minimum, or a result not more than 1e-6 away from the CF of
\* its conclusion; one more pass over the rules changes nothing.
C16_StableAtExit ==
    LoopExit =>
        /\ \A i \in 1..Len(KbRules(kb)) : Settled(KbRules(kb)[i])
        /\ PassFrom(KbRules(kb), 1, Locals) = Locals

\* the loop ended after three passes, a rule being held back by its memo
C16_Witness ==
    /\ LoopExit /\ iteration >= 3 /\ Len(fired_trace) >= 2
    /\ \E i \in 1..Len(KbRules(kb)) :
           LET rule == KbRules(kb)[i]
           IN  /\ ~AntecedentCfs(cf_facts, rule).missing
               /\ Has(applied_rules, rule.id)
               /\ Significant(NewConclCf(cf_facts, rule.then,
                                         Mul(rule.cf, Get(applied_rules, rule.id))).val,
                              OldConclCf(cf_facts, rule.then))

InUnit(x) == Ge(x, MinusOne) /\ Le(x, One)

\* the user confidences lie in [0, 1] (a non-numeric one counts as 1.0), the
\* mb - md of the symptoms and the rule strengths in [-1, 1]
InputsInRange ==
    /\ \A i \in 1..Len(input_facts) :
           \/ input_facts[i].v.kind = "other"
           \/ Ge(input_facts[i].v.val, Zero) /\ Le(input_facts[i].v.val, One)
    /\ \A i \in 1..Len(KbSymptoms(kb)) :
           InUnit(Sub(KbSymptoms(kb)[i].mb, KbSymptoms(kb)[i].md))
    /\ \A i \in 1..Len(KbRules(kb)) : InUnit(KbRules(kb)[i].cf)

\* C17: with user confidences in [0, 1], mb - md in [-1, 1] and rule
\* strengths in [-1, 1], every value of the fact store of
\* engine.forward_chaining lies in [-1, 1] after seeding and after each
\* commit, combine_cf of two of them lies in [-1, 1], and the final clamp
\* leaves the rounded value as it is.
C17_StoreInRange ==
    (eng = "engine" /\ Running /\ InputsInRange) =>
        /\ \A i \in 1..Len(cf_facts) :
               /\ InUnit(cf_facts[i].v)
               /\ Clamp(cf_facts[i].v) = Round4(cf_facts[i].v)
        /\ \A i, j \in 1..Len(cf_facts) :
               /\ combine_cf(cf_facts[i].v, cf_facts[j].v).ok
               /\ InUnit(combine_cf(cf_facts[i].v, cf_facts[j].v).val)

\* a fact store with a value combined from two contributions and a
\* negative value
C17_Witness ==
    /\ eng = "engine" /\ Running /\ InputsInRange
    /\ \E i \in 1..Len(fired_trace) :
           /\ fired_trace[i].old_cf /= Zero
           /\ fired_trace[i].new_cf /= fired_trace[i].rule_contribution
    /\ \E i \in 1..Len(cf_facts) : Lt(cf_facts[i].v, Zero)

\* every rule that concludes a fact comes before every rule that has the
\* fact as an antecedent, and no rule concludes one of its own antecedents
DependencyOrdered(rules) ==
    \A i, j \in 1..Len(rules) :
        (\E a \in 1..Len(rules[j].if) : rules[j].if[a] = rules[i].then)
        => i < j

\* the contributions of the trace items for the conclusion c, from the i-th
\* item on, combined in their order onto acc (has: c has a value so far)
RECURSIVE CombinedFrom(_, _, _)
CombinedFrom(c, i, acc) ==
    IF i > Len(fired_trace) THEN acc.v
    ELSE IF fired_trace[i].conclusion /= c THEN CombinedFrom(c, i + 1, acc)
    ELSE CombinedFrom(c, i + 1,
             [has |-> TRUE,
              v |-> IF acc.has
                    THEN combine_cf(acc.v, fired_trace[i].rule_contribution).val
                    ELSE fired_trace[i].rule_contribution])

\* C18: with a rule list in dependency order, engine.forward_chaining makes
\* at most two passes, no rule id is twice in the trace, and the value of
\* each conclusion is the combination, in the order of the trace, of the
\* contributions of the rules fired for it.
C18_TwoPassesInDependencyOrder ==
    (/\ eng = "engine" /\ Running /\ Len(fired_trace) < MaxTrace
     /\ DependencyOrdered(KbRules(kb)))
    => /\ iteration <= 2
       /\ \A i, j \in 1..Len(fired_trace) :
              fired_trace[i].rule_id = fired_trace[j].rule_id => i = j
       /\ \A c \in TraceConclusions :
              Get(cf_facts, c) =
                  CombinedFrom(c, 1, [has |-> Has(SeedFacts(kb, input_facts), c),
                                      v |-> SeededCf(c)])

AppRunning == eng = "app" /\ Running

\* no rule id is twice in the trace of ExpertSystem.forward_chaining, and
\* with rules that all have an antecedent the passes are at most the number
\* of rule ids plus one
AppFiresOnce ==
    eng = "app" =>
        /\ \A i, j \in 1..Len(fired_trace) :
               fired_trace[i].rule_id = fired_trace[j].rule_id => i = j
        /\ (\A i \in 1..Len(KbRules(kb)) : KbRules(kb)[i].if /= <<>>)
               => iteration <= Cardinality(RuleIds(KbRules(kb))) + 1

\* a rule whose id is in the trace is passed over
AppSkipsFired ==
    (AtRule("app") /\ InTrace(fired_trace, CurRule.id))
    => /\ ri' = ri + 1
       /\ UNCHANGED <<cf_facts, fired_trace, changed, pc>>

====
